---- MODULE Spec2Model ----
(***************************************************************************)
(* rustyx (src/main.rs): one run of main reads config.json, loads the      *)
(* cached refresh token, performs one OAuth token exchange, saves the      *)
(* returned refresh token and prints.  Strings whose exact characters      *)
(* matter (tokens, console input) are sequences of one-character strings.  *)
(***************************************************************************)
EXTENDS Integers, Sequences, FiniteSets, TLC

\* ------------------------------------------------------------------ bounds
\* number of runs of the program executed one after the other
MaxRuns == 2

\* ------------------------------------------------------------------ values
Procs == {1, 2}
SeqProcs == {1}

\* Option<String>
None == [some |-> FALSE, val |-> <<>>]
Some(v) == [some |-> TRUE, val |-> v]

\* refresh tokens the server may issue / the cache file may hold
RefreshTokens == { <<>>, <<"r">>, <<"s">>, <<" ", "r">> }
AccessTokens == { <<"a">> }
\* lines the user may type at the prompt (read_line keeps the newline)
Inputs == { <<"c", "\n">>, <<" ", "c", " ", "\n">> }

\* a member of a JSON object: missing, present but not a string, or a string
Absent == [kind |-> "absent", s |-> <<>>]
NonString == [kind |-> "other", s |-> <<>>]
Str(t) == [kind |-> "string", s |-> t]
AccessFields == {Absent, NonString} \cup {Str(t) : t \in AccessTokens}
RefreshFields == {Absent, NonString} \cup {Str(t) : t \in RefreshTokens}

\* contents of config.json
ConfigFiles == {"missing", "not_json", "no_client_id", "no_client_secret",
                "non_string_field", "object", "array"}

\* bodies of the token endpoint's reply:
\*   plain       {"access_token": .., "refresh_token": ..}
\*   ok_variant  {"Ok": {"access_token": .., "refresh_token": ..}}
\*   err_variant {"Err": "..."}
\*   garbage     not JSON;  unreadable: reading the body fails
FieldForms == {"plain", "ok_variant"}
Bodies == [form : FieldForms, access : AccessFields, refresh : RefreshFields]
          \cup [form : {"garbage", "unreadable", "err_variant"},
                access : {Absent}, refresh : {Absent}]
NoBody == [form |-> "none", access |-> Absent, refresh |-> Absent]
Responses == { [status |-> st, body |-> b] : st \in {"ok", "http_error"}, b \in Bodies }
             \cup { [status |-> "network_error", body |-> NoBody] }
NoResponse == [status |-> "none", body |-> NoBody]

NoParams == [grant_type |-> "none", refresh_token |-> <<>>, code |-> <<>>,
             client_id |-> "", client_secret |-> ""]
NoResult == [ok |-> FALSE, access_token |-> <<>>, refresh_token |-> None, error |-> ""]
Ok(a, r) == [ok |-> TRUE, access_token |-> a, refresh_token |-> r, error |-> ""]
Err(e) == [ok |-> FALSE, access_token |-> <<>>, refresh_token |-> None, error |-> e]

Line(text, arg) == [text |-> text, arg |-> arg]

VARIABLES
    configFile,  \* contents of config.json
    dir,         \* $HOME/.cache/rustyx exists
    cache,       \* contents of $HOME/.cache/rustyx/rustyx, None when absent
    proc,        \* per run: position in main and its locals
    runs,        \* runs started so far (sequential specification)
    saves,       \* successful writes of the cache file so far
    completed,   \* runs whose exchange returned tokens, in order of completion
    lastWriter   \* the run that wrote the cache file last, 0 when none

vars == <<configFile, dir, cache, proc, runs, saves, completed, lastWriter>>

\* ------------------------------------------------------------ pure helpers
IsSpace(c) == c \in {" ", "\n"}

RECURSIVE TrimStart(_)
TrimStart(s) == IF s # <<>> /\ IsSpace(Head(s)) THEN TrimStart(Tail(s)) ELSE s

RECURSIVE TrimEnd(_)
TrimEnd(s) == IF s # <<>> /\ IsSpace(s[Len(s)])
              THEN TrimEnd(SubSeq(s, 1, Len(s) - 1)) ELSE s

\* str::trim
Trim(s) == TrimEnd(TrimStart(s))

\* mutation: a config without client_secret is accepted
ParseConfigLenient(c) == c \in {"object", "array", "no_client_secret"}

\* serde_json::from_str::<Config>: the derived Deserialize takes a map with both
\* string members, and also a sequence of two strings
ParseConfig(c) == c \in {"object", "array"}

ExtractValue(v) == IF v.kind = "string" THEN Some(v.s) ELSE None

\* parse_response: the arm `Ok(parsed) => parsed` makes the target type of
\* serde_json::from_str the function's own Result<Value, String>, whose JSON
\* form is {"Ok": value} or {"Err": "message"}
ParseResponse(b) ==
    CASE b.form = "unreadable" -> [ok |-> FALSE, error |-> "read error", value |-> NoBody]
      [] b.form = "ok_variant" -> [ok |-> TRUE, error |-> "", value |-> b]
      [] b.form = "err_variant" -> [ok |-> FALSE, error |-> "Err variant", value |-> NoBody]
      [] OTHER -> [ok |-> FALSE, error |-> "Could not parse json", value |-> NoBody]

\* mutation: error_for_status is not applied
TokensFromResponseAnyStatus(resp) ==
    IF resp.status = "network_error" THEN Err("Could not get the response")
    ELSE LET parsed == ParseResponse(resp.body) IN
         IF ~parsed.ok THEN Err(parsed.error)
         ELSE LET a == ExtractValue(parsed.value.access)
                  r == ExtractValue(parsed.value.refresh) IN
              IF a.some THEN Ok(a.val, r)
              ELSE Err("Could not get tokens from the request")

\* tokens_from_params, from the reply on
TokensFromResponse(resp) ==
    IF resp.status # "ok" THEN Err("Could not get the response")
    ELSE LET parsed == ParseResponse(resp.body) IN
         IF ~parsed.ok THEN Err(parsed.error)
         ELSE LET a == ExtractValue(parsed.value.access)
                  r == ExtractValue(parsed.value.refresh) IN
              IF a.some THEN Ok(a.val, r)
              ELSE Err("Could not get tokens from the request")

\* mutation: an unset HOME falls back to a default directory
CacheFileNoHome(home, d, mkdirOk) ==
    IF d \/ mkdirOk THEN [ok |-> TRUE, dir |-> TRUE]
    ELSE [ok |-> FALSE, dir |-> d]

\* cache_file: HOME must be set and create_dir_all must succeed
CacheFile(home, d, mkdirOk) ==
    IF home /\ (d \/ mkdirOk) THEN [ok |-> TRUE, dir |-> TRUE]
    ELSE [ok |-> FALSE, dir |-> d]

\* mutation: the cached token is trimmed when read
ReadToStringTrimmed(file, readOk) ==
    IF file.some /\ readOk THEN Some(Trim(file.val)) ELSE None

\* fs::read_to_string(path).ok()
ReadToString(file, readOk) == IF file.some /\ readOk THEN Some(file.val) ELSE None

\* mutation: the two arms of the match are exchanged
SelectPathSwapped(loaded) == IF loaded.some THEN "code" ELSE "refresh"

\* main's match on load_refresh_token()
SelectPath(loaded) == IF loaded.some THEN "refresh" ELSE "code"

\* mutation: the token is trimmed before it is written
WriteBytesTrimmed(token) == Trim(token)

\* bytes fs::write stores
WriteBytes(token) == token

\* mutation: the error is dropped without a message
OnErrorSilent(r, msg) == [r EXCEPT !.pc = "done"]

\* eprintln!("{error}"); return;
OnError(r, msg) == [r EXCEPT !.stderr = Append(@, msg), !.pc = "done"]

NewRunState(home, file) ==
    [pc |-> "start", home |-> home, loaded |-> None, params |-> NoParams,
     response |-> NoResponse, result |-> NoResult, stdout |-> <<>>, stderr |-> <<>>,
     prompted |-> FALSE, reads |-> 0, writes |-> 0, posts |-> 0, mkdirs |-> 0,
     \* history of the run, read by the properties only
     cache0 |-> file, cached |-> None, readFailed |-> FALSE, pathFailed |-> FALSE]
IdleState == [NewRunState(FALSE, None) EXCEPT !.pc = "idle"]

\* ------------------------------------------------------------------ actions
ReadConfig(p) ==
    /\ proc[p].pc = "start"
    /\ proc' = [proc EXCEPT ![p] =
                  IF ParseConfig(configFile)
                  THEN [@ EXCEPT !.pc = "load"]
                  ELSE OnError(@, "Could not parse the configuration file")]
    /\ UNCHANGED <<configFile, dir, cache, runs, saves, completed, lastWriter>>

LoadRefreshToken(p) ==
    /\ proc[p].pc = "load"
    /\ \E mkdirOk \in BOOLEAN, readOk \in BOOLEAN :
         LET path == CacheFile(proc[p].home, dir, mkdirOk)
             loaded == IF path.ok THEN ReadToString(cache, readOk) ELSE None
         IN /\ dir' = path.dir
            /\ proc' = [proc EXCEPT ![p] =
                          [@ EXCEPT !.loaded = loaded,
                                    !.cached = IF proc[p].home /\ (dir \/ mkdirOk) /\ readOk
                                               THEN cache ELSE None,
                                    !.readFailed = proc[p].home /\ (dir \/ mkdirOk)
                                                   /\ cache.some /\ ~readOk,
                                    !.pathFailed = ~proc[p].home \/ (~dir /\ ~mkdirOk),
                                    !.reads = @ + (IF path.ok THEN 1 ELSE 0),
                                    !.mkdirs = @ + (IF proc[p].home THEN 1 ELSE 0),
                                    !.pc = SelectPath(loaded)]]
    /\ UNCHANGED <<configFile, cache, runs, saves, completed, lastWriter>>

AuthorizeByRefreshToken(p) ==
    /\ proc[p].pc = "refresh"
    /\ proc' = [proc EXCEPT ![p] =
                  [@ EXCEPT !.stdout = Append(@, Line("Using the refresh token to authenticate...", <<>>)),
                            !.params = [grant_type |-> "refresh_token",
                                        refresh_token |-> proc[p].loaded.val,
                                        code |-> <<>>,
                                        client_id |-> "client_id",
                                        client_secret |-> "client_secret"],
                            !.posts = @ + 1,
                            !.pc = "wait"]]
    /\ UNCHANGED <<configFile, dir, cache, runs, saves, completed, lastWriter>>

AuthorizeByCode(p) ==
    /\ proc[p].pc = "code"
    /\ LET shown == proc[p].stdout \o <<Line("authorization_url", <<>>),
                                        Line("Authorization code: ", <<>>)>>
       IN \/ \E input \in Inputs :
               proc' = [proc EXCEPT ![p] =
                          [@ EXCEPT !.stdout = shown,
                                    !.prompted = TRUE,
                                    !.params = [grant_type |-> "authorization_code",
                                                refresh_token |-> <<>>,
                                                code |-> Trim(input),
                                                client_id |-> "client_id",
                                                client_secret |-> "client_secret"],
                                    !.posts = @ + 1,
                                    !.pc = "wait"]]
          \/ \* read_line fails and unwrap panics
             proc' = [proc EXCEPT ![p] =
                        [@ EXCEPT !.stdout = shown,
                                  !.prompted = TRUE,
                                  !.stderr = Append(@, "panicked"),
                                  !.pc = "done"]]
    /\ UNCHANGED <<configFile, dir, cache, runs, saves, completed, lastWriter>>

TokensFromParams(p) ==
    /\ proc[p].pc = "wait"
    /\ \E resp \in Responses :
         LET res == TokensFromResponse(resp) IN
         /\ proc' = [proc EXCEPT ![p] =
                       [@ EXCEPT !.response = resp, !.result = res, !.pc = "result"]]
         /\ completed' = IF res.ok THEN Append(completed, p) ELSE completed
    /\ UNCHANGED <<configFile, dir, cache, runs, saves, lastWriter>>

\* mutation: a failed exchange is tried again
HandleResultRetry(p) ==
    /\ proc[p].pc = "result"
    /\ proc' = [proc EXCEPT ![p] =
                  IF ~proc[p].result.ok
                  THEN [@ EXCEPT !.pc = SelectPath(proc[p].loaded)]
                  ELSE IF proc[p].result.refresh_token.some
                       THEN [@ EXCEPT !.pc = "save"]
                       ELSE [@ EXCEPT !.pc = "print"]]
    /\ UNCHANGED <<configFile, dir, cache, runs, saves, completed, lastWriter>>

HandleResult(p) ==
    /\ proc[p].pc = "result"
    /\ proc' = [proc EXCEPT ![p] =
                  IF ~proc[p].result.ok
                  THEN OnError(@, proc[p].result.error)
                  ELSE IF proc[p].result.refresh_token.some
                       THEN [@ EXCEPT !.pc = "save"]
                       ELSE [@ EXCEPT !.pc = "print"]]
    /\ UNCHANGED <<configFile, dir, cache, runs, saves, completed, lastWriter>>

\* save_refresh_token resolves the path again; a failed fs::write is taken to
\* leave the file as it was
SaveRefreshToken(p) ==
    /\ proc[p].pc = "save"
    /\ \E mkdirOk \in BOOLEAN, writeOk \in BOOLEAN :
         LET path == CacheFile(proc[p].home, dir, mkdirOk) IN
         /\ dir' = path.dir
         /\ IF path.ok /\ writeOk
            THEN /\ cache' = Some(WriteBytes(proc[p].result.refresh_token.val))
                 /\ saves' = saves + 1
                 /\ lastWriter' = p
                 /\ proc' = [proc EXCEPT ![p] =
                               [@ EXCEPT !.writes = @ + 1,
                                         !.mkdirs = @ + 1,
                                         !.pc = "print"]]
            ELSE /\ proc' = [proc EXCEPT ![p] =
                               OnError([@ EXCEPT !.mkdirs = @ + (IF proc[p].home THEN 1 ELSE 0)],
                                       "io error")]
                 /\ UNCHANGED <<cache, saves, lastWriter>>
    /\ UNCHANGED <<configFile, runs, completed>>

\* main's last two statements print `response`, not access_token
PrintResponse(p) ==
    /\ proc[p].pc = "print"
    /\ proc' = [proc EXCEPT ![p] =
                  [@ EXCEPT !.stdout = @ \o <<Line("response {response:?}", <<>>),
                                              Line("body {:?}", <<>>)>>,
                            !.pc = "done"]]
    /\ UNCHANGED <<configFile, dir, cache, runs, saves, completed, lastWriter>>

\* the program is started again after the previous run ended
NewRun(p) ==
    /\ proc[p].pc = "done"
    /\ runs < MaxRuns
    /\ runs' = runs + 1
    /\ \E home \in BOOLEAN : proc' = [proc EXCEPT ![p] = NewRunState(home, cache)]
    /\ UNCHANGED <<configFile, dir, cache, saves, completed, lastWriter>>

\* ------------------------------------------------------------ specifications
InitFiles ==
    /\ configFile \in ConfigFiles
    /\ cache \in {None} \cup {Some(t) : t \in RefreshTokens}
    /\ dir \in BOOLEAN
    /\ cache.some => dir
    /\ saves = 0
    /\ completed = <<>>
    /\ lastWriter = 0

Init ==
    /\ InitFiles
    /\ runs = 1
    /\ \E home \in BOOLEAN :
         proc = [p \in Procs |-> IF p \in SeqProcs THEN NewRunState(home, cache)
                                 ELSE IdleState]

Next ==
    \E p \in SeqProcs :
        \/ ReadConfig(p)
        \/ LoadRefreshToken(p)
        \/ AuthorizeByRefreshToken(p)
        \/ AuthorizeByCode(p)
        \/ TokensFromParams(p)
        \/ HandleResult(p)
        \/ SaveRefreshToken(p)
        \/ PrintResponse(p)
        \/ NewRun(p)

Spec == Init /\ [][Next]_vars

\* two invocations of the program at the same time
InitConc ==
    /\ InitFiles
    /\ configFile \in {"object", "missing"}
    /\ cache \in {None, Some(<<" ", "r">>)}
    /\ runs = 0
    /\ \E h \in [Procs -> BOOLEAN] : proc = [p \in Procs |-> NewRunState(h[p], cache)]

NextConc ==
    \E p \in Procs :
        \/ ReadConfig(p)
        \/ LoadRefreshToken(p)
        \/ AuthorizeByRefreshToken(p)
        \/ AuthorizeByCode(p)
        \/ TokensFromParams(p)
        \/ HandleResult(p)
        \/ SaveRefreshToken(p)
        \/ PrintResponse(p)

SpecConc == InitConc /\ [][NextConc]_vars

\* -------------------------------------------------------------- properties
Accepted == {"object", "array"}
PastLoad(r) == r.pc \notin {"idle", "start", "load"}
UrlPrinted(r) == \E i \in DOMAIN r.stdout : r.stdout[i].text = "authorization_url"
FinalPrinted(r) == \E i \in DOMAIN r.stdout : r.stdout[i].text = "body {:?}"
AccessTokenPrinted(r) ==
    r.result.ok /\ \E i \in DOMAIN r.stdout : r.stdout[i].arg = r.result.access_token

\* a reply is there and is not a success reply carrying a string access_token
ExchangeFailed(r) ==
    /\ r.response.status # "none"
    /\ \/ r.response.status # "ok"
       \/ r.response.body.form \in {"garbage", "unreadable"}
       \/ r.response.body.access.kind # "string"
ConfigFailed(r) == r.pc \notin {"idle", "start"} /\ configFile \notin Accepted
SaveFailed(r) == r.pc = "done" /\ r.result.ok /\ r.result.refresh_token.some /\ r.writes = 0
StdinFailed(r) == r.pc = "done" /\ r.prompted /\ r.posts = 0
ConfigAbort(r) ==
    /\ r.pc = "done"
    /\ r.stderr = <<"Could not parse the configuration file">>
    /\ r.stdout = <<>>
    /\ r.reads = 0 /\ r.mkdirs = 0 /\ r.posts = 0 /\ r.writes = 0
    /\ ~r.prompted
    /\ cache = r.cache0

\* C1: with an accepted config, a readable cache file makes the one request a
\* refresh_token grant carrying the cached string, with no prompt; otherwise the
\* URL is printed, the user is prompted and the request is an
\* authorization_code grant; never both
C1_PathSelection ==
    \A p \in SeqProcs : LET r == proc[p] IN
      (configFile \in Accepted /\ PastLoad(r)) =>
        /\ r.posts <= 1
        /\ r.cached.some =>
             /\ r.pc # "code"
             /\ ~r.prompted
             /\ ~UrlPrinted(r)
             /\ r.pc # "refresh" =>
                  /\ r.posts = 1
                  /\ r.params.grant_type = "refresh_token"
                  /\ r.params.refresh_token = r.cached.val
        /\ ~r.cached.some =>
             /\ r.pc # "refresh"
             /\ r.pc # "code" =>
                  /\ r.prompted
                  /\ UrlPrinted(r)
                  /\ r.posts = 1 => r.params.grant_type = "authorization_code"
                  /\ r.posts = 0 => StdinFailed(r)

C1_Witness ==
    \E p \in SeqProcs : LET r == proc[p] IN
      /\ r.pc = "done" /\ r.cached.some /\ r.posts = 1
      /\ r.params.grant_type = "refresh_token"
      /\ r.params.refresh_token = <<" ", "r">>

\* C2: after a success reply {"access_token": .., "refresh_token": ..} the cache
\* file holds exactly the new refresh token when the reply has one, and is
\* untouched when it has none
C2_CacheUpdatedOnSuccess ==
    \A p \in SeqProcs : LET r == proc[p] IN
      (/\ r.pc = "done"
       /\ r.response.status = "ok"
       /\ r.response.body.form = "plain"
       /\ r.response.body.access.kind = "string") =>
        IF r.response.body.refresh.kind = "string"
        THEN cache = Some(r.response.body.refresh.s)
        ELSE cache = r.cache0

\* C3: a non-success status, a body that is not JSON or a body without a string
\* access_token ends the run with an error on standard error and the cache
\* file as it was before the run
C3_NoMutationOnFailure ==
    \A p \in SeqProcs : LET r == proc[p] IN
      (r.pc = "done" /\ ExchangeFailed(r)) =>
        /\ r.stderr # <<>>
        /\ r.writes = 0
        /\ cache = r.cache0
        /\ ~FinalPrinted(r)

C3_Witness ==
    \E p \in SeqProcs : LET r == proc[p] IN
      /\ r.pc = "done"
      /\ r.response.status = "http_error"
      /\ r.response.body.form = "ok_variant"
      /\ r.response.body.access.kind = "string"
      /\ r.response.body.refresh = Str(<<"s">>)
      /\ r.stderr # <<>>
      /\ cache = Some(<<"r">>)

\* C4 as stated: every config other than an object with string client_id and
\* client_secret ends the run with the error and nothing else done
C4_WellFormedConfigRequired ==
    \A p \in SeqProcs : LET r == proc[p] IN
      (r.pc \notin {"idle", "start"} /\ configFile # "object") => ConfigAbort(r)

\* C4 as amended: a config that is missing, not JSON, or neither an object with
\* both string members nor an array of two strings ends the run with the error
\* and no read, directory creation, prompt, request or write
C4_MalformedConfigAborts ==
    \A p \in SeqProcs : LET r == proc[p] IN
      ConfigFailed(r) => ConfigAbort(r)

C4_Witness ==
    \E p \in SeqProcs : LET r == proc[p] IN
      /\ r.pc = "done" /\ configFile = "no_client_secret"
      /\ r.stderr # <<>> /\ r.home /\ cache.some

\* C5: a run whose exchange succeeded and whose new refresh token, if any, was
\* written ends with the access token on standard output
C5_AccessTokenPrinted ==
    \A p \in SeqProcs : LET r == proc[p] IN
      (/\ r.pc = "done" /\ r.result.ok
       /\ r.result.refresh_token.some => r.writes = 1) =>
        AccessTokenPrinted(r)

\* what C6 and its amendment share: a failed config, exchange, save or console
\* read leaves one message on standard error and the run over, with nothing
\* done after it
FailuresAbort(r) ==
    /\ r.stderr # <<>> => r.pc = "done"
    /\ (r.pc = "done" /\ (ConfigFailed(r) \/ ExchangeFailed(r) \/ SaveFailed(r) \/ StdinFailed(r))) =>
         /\ Len(r.stderr) = 1
         /\ ~FinalPrinted(r)
         /\ ~AccessTokenPrinted(r)
         /\ r.writes = 0
    /\ ConfigFailed(r) => ConfigAbort(r)
    /\ (r.pc = "done" /\ ExchangeFailed(r)) => cache = r.cache0

\* C6 as stated: every failure, a cache file that cannot be read included, ends
\* the run with a message and no prompt, request, write or token after it
C6_AllFailuresAbort ==
    \A p \in SeqProcs : LET r == proc[p] IN
      /\ FailuresAbort(r)
      /\ r.readFailed => (r.pc = "done" /\ r.stderr # <<>> /\ ~r.prompted /\ r.posts = 0)

\* C6 as amended: every failure but a failed read of the cache file ends the
\* run with a message; a cache file that cannot be read counts as no cached
\* token and the run goes on along the authorization-code path
C6_FailuresAbortButUnreadableCache ==
    \A p \in SeqProcs : LET r == proc[p] IN
      /\ FailuresAbort(r)
      /\ r.readFailed =>
           /\ ~r.loaded.some
           /\ r.pc # "refresh"
           /\ r.params.grant_type # "refresh_token"
           /\ r.pc # "code" => (r.prompted /\ UrlPrinted(r))

C6_Witness ==
    \E p \in SeqProcs : LET r == proc[p] IN
      /\ r.readFailed /\ r.pc = "done" /\ r.posts = 1
      /\ r.params.grant_type = "authorization_code"
      /\ r.response.status = "http_error"
      /\ Len(r.stderr) = 1

PathFailureTakesCodePath(r) ==
    /\ ~r.loaded.some
    /\ r.pc # "refresh"
    /\ r.params.grant_type # "refresh_token"
    /\ r.pc # "code" => r.prompted

\* C7 as stated: when the cache path cannot be resolved the run takes the
\* authorization-code path and a successful exchange ends it without an error
C7_PathFailureNonFatal ==
    \A p \in SeqProcs : LET r == proc[p] IN
      r.pathFailed =>
        /\ PathFailureTakesCodePath(r)
        /\ (r.pc = "done" /\ r.result.ok) => r.stderr = <<>>

\* C7 as amended: when the cache path cannot be resolved on loading the run
\* takes the authorization-code path; a successful exchange then ends without an
\* error exactly when it returned no refresh token or the token could be
\* written, and with HOME unset a returned refresh token ends it with an error
C7_PathFailureNonFatalOnLoad ==
    \A p \in SeqProcs : LET r == proc[p] IN
      r.pathFailed =>
        /\ PathFailureTakesCodePath(r)
        /\ (r.pc = "done" /\ r.result.ok) =>
             /\ r.stderr = <<>> <=> (~r.result.refresh_token.some \/ r.writes = 1)
             /\ r.stderr = <<>> <=> FinalPrinted(r)
             /\ (r.result.refresh_token.some /\ ~r.home) => r.stderr # <<>>

C7_Witness ==
    \E p \in SeqProcs : LET r == proc[p] IN
      /\ r.pathFailed /\ ~r.home /\ r.pc = "done"
      /\ r.params.grant_type = "authorization_code"
      /\ r.result.ok /\ r.result.refresh_token.some
      /\ r.stderr # <<>>

\* C8 as stated: every finished run has read the cache file once, written it at
\* most once and sent at most one request
C8_ReadOnceWriteAtMostOnce ==
    \A p \in SeqProcs : LET r == proc[p] IN
      r.pc = "done" => (r.reads = 1 /\ r.writes <= 1 /\ r.posts <= 1)

C8_Counts ==
    \A p \in SeqProcs : LET r == proc[p] IN
      /\ r.reads <= 1 /\ r.writes <= 1 /\ r.posts <= 1
      /\ r.pc = "done" => (r.reads = 1 <=> (configFile \in Accepted /\ ~r.pathFailed))
      /\ r.pc \in {"start", "load"} => (r.reads = 0 /\ r.posts = 0 /\ r.writes = 0)
      /\ r.writes = 1 => (r.posts = 1 /\ r.result.ok /\ r.response.status = "ok")

C8_Order ==
    \A p \in SeqProcs :
      /\ proc'[p].reads > proc[p].reads => (proc[p].posts = 0 /\ proc[p].writes = 0)
      /\ proc'[p].posts > proc[p].posts => (proc[p].pc \in {"refresh", "code"} /\ proc[p].writes = 0)
      /\ proc'[p].writes > proc[p].writes => (proc[p].result.ok /\ proc[p].posts = 1)

\* C8 as amended: a run reads the cache file at most once (once exactly when the
\* config is accepted and the cache path resolves, never otherwise), writes it
\* at most once, sends at most one request and repeats none; the read comes
\* before the request and the write after a successful reply
C8_AtMostOnceInOrder == []C8_Counts /\ [][C8_Order]_vars

C8_Witness ==
    \E p \in SeqProcs : LET r == proc[p] IN
      r.pc = "done" /\ r.reads = 1 /\ r.posts = 1 /\ r.writes = 1

StepOf(p) ==
    \/ ReadConfig(p) \/ LoadRefreshToken(p) \/ AuthorizeByRefreshToken(p)
    \/ AuthorizeByCode(p) \/ TokensFromParams(p) \/ HandleResult(p)
    \/ SaveRefreshToken(p) \/ PrintResponse(p)

\* C9: with two runs at once and no locking no run ever waits for the other,
\* and the cache file holds the token of the run that wrote last, whatever the
\* order in which the tokens were issued
C9_UnlockedLastWriterWins ==
    /\ \A p \in Procs : proc[p].pc # "done" => ENABLED StepOf(p)
    /\ lastWriter # 0 =>
         /\ proc[lastWriter].result.ok
         /\ cache = Some(proc[lastWriter].result.refresh_token.val)

\* both runs read the same token, both exchanges succeed with distinct new
\* tokens, and the file ends with the token issued first
C9_Witness ==
    \E a \in Procs, b \in Procs :
      /\ a # b
      /\ completed = <<a, b>>
      /\ proc[a].pc = "done" /\ proc[b].pc = "done"
      /\ proc[a].cached.some /\ proc[a].cached = proc[b].cached
      /\ proc[a].params.grant_type = "refresh_token"
      /\ proc[b].params.grant_type = "refresh_token"
      /\ proc[a].params.refresh_token = proc[b].params.refresh_token
      /\ proc[a].writes = 1 /\ proc[b].writes = 1
      /\ proc[a].result.refresh_token # proc[b].result.refresh_token
      /\ lastWriter = a
      /\ cache = proc[a].result.refresh_token

C10_Sent ==
    \A p \in SeqProcs : LET r == proc[p] IN
      /\ (r.pc \in {"wait", "result", "save"} /\ r.params.grant_type = "refresh_token") =>
           cache = Some(r.params.refresh_token)
      /\ (PastLoad(r) /\ r.cached = Some(<<>>)) =>
           /\ r.pc # "code"
           /\ ~r.prompted
           /\ r.pc # "refresh" => r.params.grant_type = "refresh_token"

C10_Change ==
    cache' # cache =>
      \E p \in SeqProcs :
        /\ proc[p].pc = "save"
        /\ proc[p].response.status = "ok"
        /\ proc[p].result.ok
        /\ proc[p].result.refresh_token.some
        /\ cache' = Some(proc[p].result.refresh_token.val)

\* C10: over runs one after the other, the refresh_token sent on the
\* refresh-token path is the cache file's content character for character, an
\* empty file included, and the content changes only to the string
\* refresh_token of a run's successful exchange
C10_RoundTrip == []C10_Sent /\ [][C10_Change]_vars

C10_Witness ==
    \E p \in SeqProcs : LET r == proc[p] IN
      /\ runs >= 2 /\ saves >= 1
      /\ r.cache0 = Some(<<" ", "r">>)
      /\ r.pc = "wait"
      /\ r.params.grant_type = "refresh_token"
      /\ r.params.refresh_token = <<" ", "r">>

====
